---- MODULE Spec2Model ----
(***************************************************************************)
(* Offline inspection queue and its two sync executors:                    *)
(*   - offlineService (src/src/services/offlineService.ts), the foreground *)
(*     store API and syncAllInspections;                                   *)
(*   - handleInspectionSync (service worker, src/unnamed/part_000), the    *)
(*     background executor run on the 'sync-inspections' event.            *)
(* Both work on the same idb-keyval store.  A step of an executor is the   *)
(* code it runs from one storage / network operation to the next one.      *)
(***************************************************************************)
EXTENDS Integers, Sequences, FiniteSets, TLC

\* ---------------------------------------------------------------- bounds
MaxId == 2          \* record ids are 1..MaxId (uuid strings, in key order)
MaxTs == 2          \* timestamps are 1..MaxTs

Ids == 1..MaxId
Timestamps == 1..MaxTs

\* ---------------------------------------------------------------- data
OFFLINE_KEY_PREFIX == "offline-inspection-"

\* A key is <<prefix, rest>>; the rest of an offline key is the record id.
Key(id) == <<OFFLINE_KEY_PREFIX, id>>

\* One key of the same idb-keyval database that is not an inspection.
OtherKey == <<"app-", 0>>
OtherValue == [id |-> 0, timestamp |-> 1]

AllKeys == {OtherKey} \cup {Key(id) : id \in Ids}

\* OfflineInspection, reduced to the fields the executors decide on.
OfflineInspection == [id : Ids, timestamp : Timestamps]

\* What get() yields for a key that is not stored.
Undefined == [id |-> 0, timestamp |-> 0]

\* Variant: the prefix filter lets every key of the database through.
IsOfflineKeyAnyKey(key) == key[1] \in {OFFLINE_KEY_PREFIX, OtherKey[1]}

\* key.startsWith(OFFLINE_KEY_PREFIX)
IsOfflineKey(key) == key[1] = OFFLINE_KEY_PREFIX

\* ---------------------------------------------------------------- idb-keyval
\* Position of a key in IndexedDB's key order ("app-" < "offline-inspection-",
\* offline keys by their id string).
KeyOfRank(r) == IF r = 0 THEN OtherKey ELSE Key(r)

RECURSIVE KeysFrom(_, _)
KeysFrom(s, r) ==
    IF r > MaxId THEN <<>>
    ELSE (IF s[KeyOfRank(r)] # Undefined THEN <<KeyOfRank(r)>> ELSE <<>>)
         \o KeysFrom(s, r + 1)

\* keys(): every stored key, in key order.
IdbKeys(s) == KeysFrom(s, 0)

\* get(key)
IdbGet(s, key) == s[key]

\* set(key, value): an unconditional put.
IdbSet(s, key, value) == [store |-> [s EXCEPT ![key] = value], threw |-> FALSE]

\* Variant: del rejects when the key is not stored.
IdbDelStrict(s, key) ==
    [store |-> [s EXCEPT ![key] = Undefined], threw |-> s[key] = Undefined]

\* del(key): deleting a missing key is not an error.
IdbDel(s, key) == [store |-> [s EXCEPT ![key] = Undefined], threw |-> FALSE]

\* ---------------------------------------------------------------- pure parts
RECURSIVE InsertByTimestamp(_, _)
InsertByTimestamp(sorted, x) ==
    IF sorted = <<>> THEN <<x>>
    ELSE IF Head(sorted).timestamp - x.timestamp > 0
         THEN <<x>> \o sorted
         ELSE <<Head(sorted)>> \o InsertByTimestamp(Tail(sorted), x)

\* Variant: the listing is returned in key order, without the sort.
SortByTimestampMissing(seq) == seq

RECURSIVE SortByTimestamp(_)
\* inspections.sort((a, b) => a.timestamp - b.timestamp), a stable sort
SortByTimestamp(seq) ==
    IF seq = <<>> THEN <<>>
    ELSE InsertByTimestamp(SortByTimestamp(SubSeq(seq, 1, Len(seq) - 1)),
                           seq[Len(seq)])

\* What the endpoint does with one POST:
\*   "ok"      2xx with a JSON body        "badjson" 2xx, body is not JSON
\*   "http"    a non-2xx status            "neterr"  fetch rejects
Outcomes == {"ok", "badjson", "http", "neterr"}

ResponseOk(outcome) == outcome \in {"ok", "badjson"}

\* The try block of syncInspection: what it returns or throws.
SyncInspectionTry(outcome) ==
    CASE outcome = "neterr"  -> [threw |-> TRUE, success |-> FALSE, error |-> "Failed to fetch"]
      [] outcome = "http"    -> [threw |-> TRUE, success |-> FALSE, error |-> "HTTP status"]
      [] outcome = "badjson" -> [threw |-> TRUE, success |-> FALSE, error |-> "SyntaxError"]
      [] OTHER               -> [threw |-> FALSE, success |-> TRUE, error |-> "none"]

\* Variant: syncInspection without its catch.
SyncInspectionNoCatch(outcome) == SyncInspectionTry(outcome)

\* syncInspection: the catch turns every throw into {success: false, error}.
SyncInspection(outcome) ==
    LET r == SyncInspectionTry(outcome)
    IN  IF r.threw THEN [threw |-> FALSE, success |-> FALSE, error |-> r.error]
        ELSE r

\* ---------------------------------------------------------------- state
VARIABLES
    store,      \* the idb-keyval database: key -> stored value or Undefined
    apiResult,  \* how the last direct saveInspection / removeInspection call ended
    fg,         \* the syncAllInspections call of the application window
    bg,         \* the handleInspectionSync run of the service worker
    oracle,     \* the isOnline call of the application window
    flow,       \* the offline path of the capture flow (handleOfflineStorage)
    syncEvent,  \* the sync event the platform dispatched last to the worker
    worker,     \* the service worker: deployed script and lifecycle state
    caches,     \* CacheStorage: cache name -> whether it exists and its URLs
    fetchEvent  \* the fetch event the worker handled last

vars == <<store, apiResult, fg, bg, oracle, flow, syncEvent, worker, caches, fetchEvent>>

queueVars == <<store, apiResult, fg, bg>>
platformVars == <<oracle, flow, syncEvent, worker, caches, fetchEvent>>

NoCall == [op |-> "none", id |-> 0, threw |-> FALSE]

FgIdle == [pc |-> "idle", keys |-> <<>>, k |-> 0, inspections |-> <<>>, i |-> 0,
           results |-> <<>>, synced |-> 0, failed |-> 0,
           posted |-> <<>>, responses |-> <<>>, error |-> "none"]

NoNotice == [shown |-> FALSE, synced |-> 0, failed |-> 0]

BgIdle == [pc |-> "idle", keys |-> <<>>, k |-> 0, cur |-> Undefined,
           synced |-> 0, failed |-> 0, posted |-> <<>>, responses |-> <<>>,
           notice |-> NoNotice, error |-> "none"]

\* Every database content saveInspection can have produced: a record is
\* stored under the key made from its own id.
StoreContents ==
    {s \in [AllKeys -> OfflineInspection \cup {Undefined, OtherValue}] :
        /\ s[OtherKey] = OtherValue
        /\ \A id \in Ids : s[Key(id)] # Undefined => s[Key(id)] \in OfflineInspection
                                                   /\ s[Key(id)].id = id}

QueueInit ==
    /\ store \in StoreContents
    /\ apiResult = NoCall
    /\ fg = FgIdle
    /\ bg = BgIdle

\* ---------------------------------------------------------------- platform state
\* isOnline: the flag it read, the HEAD probes it issued, how the probe ended
\* ("none" before it ends) and the value it returned.
OracleIdle == [pc |-> "idle", flag |-> FALSE, probes |-> 0, answer |-> "none",
               result |-> FALSE]

\* The capture flow: flowState, the record handleOfflineStorage built, what
\* became of the background sync registration, what the connectivity check
\* said, how the webhook POST ended and how the save ended.
FlowIdle == [pc |-> "idle", state |-> "idle", inspection |-> Undefined,
             sync |-> "none", online |-> "unknown", post |-> "none",
             saved |-> "none"]

\* No sync event dispatched yet.
NoEvent == [tag |-> "none", alive |-> FALSE, notice |-> "none"]

\* The version number at the end of CACHE_NAME.
CacheVersion == 5
CACHE_NAME == <<"tyokalu-app-v", CacheVersion>>

MaxOldCaches == 2   \* cache generations of earlier versions that may exist
OldCacheNames == {<<"tyokalu-app-v", CacheVersion - n>> : n \in 1..MaxOldCaches}

\* The generation the next version of the worker script will install.
NextCacheName == <<"tyokalu-app-v", CacheVersion + 1>>
CacheNames == {CACHE_NAME, NextCacheName} \cup OldCacheNames

STATIC_CACHE_URLS ==
    {"/", "/index.html", "/manifest.json", "/female-greeting.mp3",
     "/icons/favicon.ico", "/icons/maskable-192.png", "/icons/maskable-512.png"}

NoCache == [exists |-> FALSE, urls |-> {}]

\* What install leaves behind: the current generation holding the manifest.
InstalledCache == [exists |-> TRUE, urls |-> STATIC_CACHE_URLS]

\* The two service worker scripts of the repository.
WorkerScripts == {1, 2}

MaxClients == 2   \* open application instances in the worker's scope
Clients == 1..MaxClients

\* An activated worker of the first script, nothing registered with the
\* platform's sync manager, no application instance open, no message
\* received. skipWaiting is the skip-waiting flag, failed the manifest URLs
\* install could not pre-cache, message the position of the message
\* listener's promise chain, notified the clients that got SW_UPDATED.
ActiveWorker ==
    [script |-> 1, state |-> "activated", cacheNames |-> {}, stale |-> {},
     claimed |-> TRUE, tags |-> {}, skipWaiting |-> TRUE, failed |-> {},
     clients |-> {}, received |-> {}, message |-> "none", notified |-> {}]

\* ---- requests seen by the fetch listener
\* self.location.origin and request URLs as sequences of pieces, so that
\* startsWith can be computed; the third origin is another host whose URL
\* begins with the text of the worker's own origin.
SelfOrigin == <<"https://", "app.example">>
Origins ==
    {SelfOrigin, <<"https://", "cdn.example">>, <<"https://", "app.example", ".evil.test">>}
RequestUrls ==
    STATIC_CACHE_URLS \cup
        {"/index.html?v=1", "/assets/app.3f2a.js", "/styles.css", "/assets/gallery",
         "/dashboard"}
Request ==
    [method : {"GET", "POST"}, origin : Origins, url : RequestUrls,
     mode : {"navigate", "cors"}]

\* event.request.url
RequestUrl(request) == request.origin \o <<request.url>>

\* String.prototype.startsWith
StartsWith(text, prefix) ==
    /\ Len(text) >= Len(prefix)
    /\ SubSeq(text, 1, Len(prefix)) = prefix

\* new URL(event.request.url).pathname: the URL without origin and query.
Pathname(url) == IF url = "/index.html?v=1" THEN "/index.html" ELSE url

\* The pieces of a pathname the patterns look at.
PathTokens(pathname) ==
    CASE pathname = "/" -> <<"/">>
      [] pathname = "/index.html" -> <<"/", "index", ".html">>
      [] pathname = "/manifest.json" -> <<"/", "manifest", ".json">>
      [] pathname = "/female-greeting.mp3" -> <<"/", "female-greeting", ".mp3">>
      [] pathname = "/icons/favicon.ico" -> <<"/", "icons", "/", "favicon", ".ico">>
      [] pathname = "/icons/maskable-192.png" -> <<"/", "icons", "/", "maskable-192", ".png">>
      [] pathname = "/icons/maskable-512.png" -> <<"/", "icons", "/", "maskable-512", ".png">>
      [] pathname = "/assets/app.3f2a.js" -> <<"/", "assets", "/", "app", ".3f2a", ".js">>
      [] pathname = "/styles.css" -> <<"/", "styles", ".css">>
      [] pathname = "/assets/gallery" -> <<"/", "assets", "/", "gallery">>
      [] pathname = "/dashboard" -> <<"/", "dashboard">>
      [] OTHER -> <<"/", "removed", ".html">>

NEVER_CACHE_PATTERNS == {"\\.js$", "\\.css$", "assets\\/"}

\* pattern.test(pathname) for the three patterns.
PatternTest(pattern, tokens) ==
    CASE pattern = "\\.js$" -> tokens[Len(tokens)] = ".js"
      [] pattern = "\\.css$" -> tokens[Len(tokens)] = ".css"
      [] OTHER -> \E n \in 1..(Len(tokens) - 1) : tokens[n] = "assets" /\ tokens[n + 1] = "/"

ShouldNotCache(pathname) ==
    \E pattern \in NEVER_CACHE_PATTERNS : PatternTest(pattern, PathTokens(pathname))

\* How fetch(event.request) can end: rejected, or a response with a status
\* and a type.
NetFail == [status |-> 0, type |-> "error"]
Answers == {NetFail} \cup [status : {200, 404}, type : {"basic", "cors"}]

NoResponse == [source |-> "none", url |-> ""]
NoFetch ==
    [pc |-> "idle",
     request |-> [method |-> "none", origin |-> <<>>, url |-> "", mode |-> "none"],
     lookups |-> 0, fetches |-> 0,
     answer |-> [status |-> 0, type |-> "none"],
     response |-> NoResponse, wrote |-> FALSE]

PlatformInit ==
    /\ oracle = OracleIdle
    /\ flow = FlowIdle
    /\ syncEvent = NoEvent
    /\ worker = ActiveWorker
    /\ caches = [name \in CacheNames |->
                    IF name = CACHE_NAME THEN InstalledCache ELSE NoCache]
    /\ fetchEvent = NoFetch
Init == QueueInit /\ PlatformInit

\* ---------------------------------------------------------------- store API
saveInspection(inspection) ==
    LET r == IdbSet(store, Key(inspection.id), inspection)
    IN  /\ store' = r.store
        /\ apiResult' = [op |-> "save", id |-> inspection.id, threw |-> r.threw]
        /\ UNCHANGED <<fg, bg>>

removeInspection(id) ==
    LET r == IdbDel(store, Key(id))
    IN  /\ store' = r.store
        /\ apiResult' = [op |-> "remove", id |-> id, threw |-> r.threw]
        /\ UNCHANGED <<fg, bg>>

\* getAllInspections run without interruption on database s.
RECURSIVE GetEach(_, _)
GetEach(s, ks) ==
    IF ks = <<>> THEN <<>>
    ELSE (IF IdbGet(s, Head(ks)) # Undefined THEN <<IdbGet(s, Head(ks))>> ELSE <<>>)
         \o GetEach(s, Tail(ks))

getAllInspections(s) ==
    SortByTimestamp(GetEach(s, SelectSeq(IdbKeys(s), IsOfflineKey)))

\* ---------------------------------------------------------------- foreground
\* The for loop of syncAllInspections moves on: POST the next record or return.
FgAdvance(f) ==
    IF f.i < Len(f.inspections)
    THEN [f EXCEPT !.pc = "fetching", !.i = f.i + 1,
                   !.posted = Append(f.posted, f.inspections[f.i + 1])]
    ELSE [f EXCEPT !.pc = "done"]

\* getAllInspections returns: sort, then enter the loop of syncAllInspections.
FgListed(f, inspections) ==
    FgAdvance([f EXCEPT !.inspections = SortByTimestamp(inspections), !.i = 0])

\* syncAllInspections is called; keys() answers.
FgBegin ==
    /\ fg.pc \in {"idle", "done", "rejected"}
    /\ LET offlineKeys == SelectSeq(IdbKeys(store), IsOfflineKey)
           f == [FgIdle EXCEPT !.keys = offlineKeys]
       IN  fg' = IF offlineKeys = <<>> THEN FgListed(f, <<>>)
                 ELSE [f EXCEPT !.pc = "listing", !.k = 1]
    /\ UNCHANGED <<store, apiResult>>

FgStart == FgBegin /\ UNCHANGED bg

\* get(key) answers inside getAllInspections.
FgGet ==
    /\ fg.pc = "listing"
    /\ LET inspection == IdbGet(store, fg.keys[fg.k])
           inspections == IF inspection # Undefined
                          THEN Append(fg.inspections, inspection)
                          ELSE fg.inspections
       IN  fg' = IF fg.k < Len(fg.keys)
                 THEN [fg EXCEPT !.k = fg.k + 1, !.inspections = inspections]
                 ELSE FgListed(fg, inspections)
    /\ UNCHANGED <<store, apiResult, bg>>

\* Variant: the result of syncInspection is not looked at, every record is
\* removed and counted as synced.
FgResponseIgnoreResult(outcome) ==
    /\ fg.pc = "fetching"
    /\ fg' = [fg EXCEPT !.pc = "removing",
                        !.responses = Append(fg.responses, outcome)]
    /\ UNCHANGED <<store, apiResult, bg>>

\* Variant: the first failed record ends the loop.
FgResponseStopOnFailure(outcome) ==
    /\ fg.pc = "fetching"
    /\ LET result == SyncInspection(outcome)
           id == fg.inspections[fg.i].id
           f == [fg EXCEPT !.responses = Append(fg.responses, outcome)]
       IN  fg' = IF result.success THEN [f EXCEPT !.pc = "removing"]
                 ELSE [f EXCEPT
                        !.pc = "done",
                        !.failed = fg.failed + 1,
                        !.results = Append(fg.results,
                            [id |-> id, success |-> FALSE, error |-> result.error])]
    /\ UNCHANGED <<store, apiResult, bg>>

\* The POST of syncInspection ends; lines 97-110 up to the next await.
FgResponse(outcome) ==
    /\ fg.pc = "fetching"
    /\ LET result == SyncInspection(outcome)
           id == fg.inspections[fg.i].id
           f == [fg EXCEPT !.responses = Append(fg.responses, outcome)]
       IN  fg' = IF result.threw THEN [f EXCEPT !.pc = "rejected"]
                 ELSE IF result.success THEN [f EXCEPT !.pc = "removing"]
                 ELSE FgAdvance([f EXCEPT
                        !.failed = fg.failed + 1,
                        !.results = Append(fg.results,
                            [id |-> id, success |-> FALSE, error |-> result.error])])
    /\ UNCHANGED <<store, apiResult, bg>>

\* removeInspection(inspection.id) of a synced record completes; lines 100-102.
FgRemove ==
    /\ fg.pc = "removing"
    /\ LET id == fg.inspections[fg.i].id
           r == IdbDel(store, Key(id))
       IN  /\ store' = r.store
           /\ fg' = IF r.threw THEN [fg EXCEPT !.pc = "rejected"]
                    ELSE FgAdvance([fg EXCEPT
                           !.synced = fg.synced + 1,
                           !.results = Append(fg.results,
                               [id |-> id, success |-> TRUE, error |-> "none"])])
    /\ UNCHANGED <<apiResult, bg>>

\* ---------------------------------------------------------------- background
\* After the for loop of handleInspectionSync: notify if anything was synced.
BgFinish(b) ==
    [b EXCEPT !.pc = "done",
              !.notice = IF b.synced > 0
                         THEN [shown |-> TRUE, synced |-> b.synced, failed |-> b.failed]
                         ELSE NoNotice]

\* The for loop of handleInspectionSync moves on to the next key.
BgAdvance(b) ==
    IF b.k < Len(b.keys)
    THEN [b EXCEPT !.pc = "getting", !.k = b.k + 1, !.cur = Undefined]
    ELSE BgFinish([b EXCEPT !.cur = Undefined])

\* A 'sync-inspections' event runs handleInspectionSync; keys() answers.
BgBegin ==
    /\ bg.pc \in {"idle", "done"}
    /\ LET offlineKeys == SelectSeq(IdbKeys(store), IsOfflineKey)
       IN  bg' = IF Len(offlineKeys) = 0 THEN [BgIdle EXCEPT !.pc = "done"]
                 ELSE [BgIdle EXCEPT !.pc = "getting", !.keys = offlineKeys, !.k = 1]
    /\ UNCHANGED <<store, apiResult>>

BgStart == BgBegin /\ UNCHANGED fg

\* get(key) answers; a missing record is skipped, a found one is POSTed.
BgGet ==
    /\ bg.pc = "getting"
    /\ LET inspection == IdbGet(store, bg.keys[bg.k])
       IN  bg' = IF inspection = Undefined THEN BgAdvance(bg)
                 ELSE [bg EXCEPT !.pc = "fetching", !.cur = inspection,
                                 !.posted = Append(bg.posted, inspection)]
    /\ UNCHANGED <<store, apiResult, fg>>

\* As BgResponse, with the record removed whatever the endpoint answered.
BgResponseIgnoresStatus(outcome) ==
    /\ bg.pc = "fetching"
    /\ LET b == [bg EXCEPT !.responses = Append(bg.responses, outcome)]
       IN  bg' = [b EXCEPT !.pc = "removing"]
    /\ UNCHANGED <<store, apiResult, fg>>

\* The POST ends: response.ok, a non-ok status, or the catch of the inner try.
BgResponse(outcome) ==
    /\ bg.pc = "fetching"
    /\ LET b == [bg EXCEPT !.responses = Append(bg.responses, outcome)]
       IN  bg' = IF outcome # "neterr" /\ ResponseOk(outcome)
                 THEN [b EXCEPT !.pc = "removing"]
                 ELSE BgAdvance([b EXCEPT !.failed = bg.failed + 1])
    /\ UNCHANGED <<store, apiResult, fg>>

\* del(key) of a synced record completes; a rejected del lands in the inner
\* catch and counts as a failure.
BgRemove ==
    /\ bg.pc = "removing"
    /\ LET r == IdbDel(store, bg.keys[bg.k])
       IN  /\ store' = r.store
           /\ bg' = IF r.threw THEN BgAdvance([bg EXCEPT !.failed = bg.failed + 1])
                    ELSE BgAdvance([bg EXCEPT !.synced = bg.synced + 1])
    /\ UNCHANGED <<apiResult, fg>>

\* ---------------------------------------------------------------- connectivity
\* How the HEAD probe of isOnline can end: a response with an ok status, a
\* response with another status, or a rejected fetch.
ProbeAnswers == {"ok", "notok", "throws"}

\* Variant: any response to the probe counts as online.
IsOnlineResultAnyResponse(answer) == answer # "throws"

\* What isOnline returns once the probe has ended: response.ok, or false
\* from the catch.
IsOnlineResult(answer) == IF answer = "throws" THEN FALSE ELSE answer = "ok"

\* isOnline is called and reads navigator.onLine.
IsOnlineCall(flag) ==
    /\ oracle.pc \in {"idle", "returned"}
    /\ oracle' = IF ~flag
                 THEN [OracleIdle EXCEPT !.pc = "returned", !.result = FALSE]
                 ELSE [OracleIdle EXCEPT !.pc = "probing", !.flag = TRUE, !.probes = 1]
    /\ UNCHANGED <<queueVars, flow, syncEvent, worker, caches, fetchEvent>>

\* The probe ends and isOnline returns.
ProbeEnds(answer) ==
    /\ oracle.pc = "probing"
    /\ oracle' = [oracle EXCEPT !.pc = "returned", !.answer = answer,
                                !.result = IsOnlineResult(answer)]
    /\ UNCHANGED <<queueVars, flow, syncEvent, worker, caches, fetchEvent>>

\* The probe is never answered: fetch has no timeout or abort signal.
ProbeHangs ==
    /\ oracle.pc = "probing"
    /\ oracle' = [oracle EXCEPT !.pc = "hung"]
    /\ UNCHANGED <<queueVars, flow, syncEvent, worker, caches, fetchEvent>>

\* ---------------------------------------------------------------- offline save
SYNC_TAG == "sync-inspections"

\* How registerBackgroundSync can go: the platform has no sync manager,
\* register() rejects, or the tag gets registered.
SyncSupport == {"unsupported", "failed", "registered"}

\* Variant: registerBackgroundSync without its try/catch.
RegisterBackgroundSyncNoCatch(support) ==
    [threw |-> support = "failed",
     tags |-> IF support = "registered" THEN {SYNC_TAG} ELSE {}]

\* registerBackgroundSync: whether it throws and which tag it registered.
RegisterBackgroundSync(support) ==
    [threw |-> FALSE,
     tags |-> IF support = "registered" THEN {SYNC_TAG} ELSE {}]

\* takePhotoAndContinue has the photo, the file name and the audio
\* preference, sets 'processing_analysis' and calls isOnline.
TakePhotoAndContinue(flag) ==
    /\ flow.pc \in {"idle", "finished"}
    /\ oracle.pc \in {"idle", "returned"}
    /\ flow' = [FlowIdle EXCEPT !.pc = "checking", !.state = "processing_analysis"]
    /\ oracle' = IF ~flag
                 THEN [OracleIdle EXCEPT !.pc = "returned", !.result = FALSE]
                 ELSE [OracleIdle EXCEPT !.pc = "probing", !.flag = TRUE, !.probes = 1]
    /\ UNCHANGED <<queueVars, syncEvent, worker, caches, fetchEvent>>

\* isOnline has returned: offline goes on to announce it, online to the POST.
CaptureConnectivityKnown ==
    /\ flow.pc = "checking"
    /\ oracle.pc = "returned"
    /\ flow' = IF oracle.result
               THEN [flow EXCEPT !.pc = "posting", !.online = "online"]
               ELSE [flow EXCEPT !.pc = "announcing", !.online = "offline"]
    /\ UNCHANGED <<queueVars, oracle, syncEvent, worker, caches, fetchEvent>>

\* speak(offlineSavedForLater) ends. Resolved, 'offline_mode' is thrown and
\* the catch calls handleOfflineStorage; rejected, the catch sees another
\* error and sets 'error'.
CaptureAnnounced(spoken) ==
    /\ flow.pc = "announcing"
    /\ flow' = IF spoken
               THEN [flow EXCEPT !.pc = "saving"]
               ELSE [flow EXCEPT !.pc = "finished", !.state = "error"]
    /\ UNCHANGED <<queueVars, oracle, syncEvent, worker, caches, fetchEvent>>

\* The webhook POST ends. Anything but a 2xx answer with a JSON body throws
\* and the catch sets 'error'; so does a failure in the rest of the online
\* path (playback, upload, database save, speech).
CapturePostEnds(outcome, rest) ==
    /\ flow.pc = "posting"
    /\ flow' = [flow EXCEPT !.pc = "finished", !.post = outcome,
                            !.state = IF outcome = "ok" /\ rest
                                      THEN "complete" ELSE "error"]
    /\ UNCHANGED <<queueVars, oracle, syncEvent, worker, caches, fetchEvent>>

\* As OfflineStorageSave, with a rejected save taken for a saved record.
OfflineStorageSaveIgnoresFailure(inspection, saved) ==
    /\ flow.pc \in {"idle", "finished", "saving"}
    /\ store[Key(inspection.id)] = Undefined
    /\ LET r == IdbSet(store, Key(inspection.id), inspection)
           f == IF flow.pc = "saving" THEN flow ELSE FlowIdle
       IN  IF saved /\ ~r.threw
           THEN /\ store' = r.store
                /\ flow' = [f EXCEPT !.pc = "registering",
                                     !.state = "saving_to_database",
                                     !.inspection = inspection,
                                     !.saved = "ok"]
           ELSE /\ store' = store
                /\ flow' = [f EXCEPT !.pc = "registering",
                                     !.state = "saving_to_database",
                                     !.inspection = inspection,
                                     !.saved = "failed"]
    /\ UNCHANGED <<apiResult, fg, bg, oracle, syncEvent, worker, caches, fetchEvent>>

\* handleOfflineStorage builds a record with a fresh id and saves it; a
\* rejected save ends in the catch.
OfflineStorageSave(inspection, saved) ==
    /\ flow.pc \in {"idle", "finished", "saving"}
    /\ store[Key(inspection.id)] = Undefined
    /\ LET r == IdbSet(store, Key(inspection.id), inspection)
           f == IF flow.pc = "saving" THEN flow ELSE FlowIdle
       IN  IF saved /\ ~r.threw
           THEN /\ store' = r.store
                /\ flow' = [f EXCEPT !.pc = "registering",
                                     !.state = "saving_to_database",
                                     !.inspection = inspection,
                                     !.saved = "ok"]
           ELSE /\ store' = store
                /\ flow' = [f EXCEPT !.pc = "finished", !.state = "error",
                                     !.inspection = inspection,
                                     !.saved = "failed"]
    /\ UNCHANGED <<apiResult, fg, bg, oracle, syncEvent, worker, caches, fetchEvent>>

\* registerBackgroundSync returns to handleOfflineStorage, which sets
\* 'complete' and starts to speak.
OfflineStorageRegister(support) ==
    /\ flow.pc = "registering"
    /\ LET r == RegisterBackgroundSync(support)
       IN  /\ flow' = IF r.threw
                      THEN [flow EXCEPT !.pc = "finished", !.state = "error",
                                        !.sync = support]
                      ELSE [flow EXCEPT !.pc = "speaking", !.state = "complete",
                                        !.sync = support]
           /\ worker' = [worker EXCEPT !.tags = worker.tags \cup r.tags]
    /\ UNCHANGED <<queueVars, oracle, syncEvent, caches, fetchEvent>>

\* speak() ends; when it rejects the catch sets 'error'.
OfflineStorageSpoken(spoken) ==
    /\ flow.pc = "speaking"
    /\ flow' = [flow EXCEPT !.pc = "finished",
                            !.state = IF spoken THEN "complete" ELSE "error"]
    /\ UNCHANGED <<queueVars, oracle, syncEvent, worker, caches, fetchEvent>>

\* ---------------------------------------------------------------- sync events
LegacyTags == {"upload-audio", "upload-file", "upload-photo"}

\* The tags the platform may fire; the last one stands for any tag no
\* listener names.
SyncTags == {"sync-inspections", "unknown-tag"} \cup LegacyTags

\* Variant: the file and photo tags run the inspection sync.
SyncDispatchUploadsSync(script, tag) ==
    IF tag = "upload-audio" THEN "audio"
    ELSE IF tag \in {"upload-file", "upload-photo"} THEN "inspections"
    ELSE IF tag = "sync-inspections" /\ script = 1 THEN "inspections"
    ELSE "none"

\* What the sync listener of a worker script passes to event.waitUntil for a
\* tag: a notification, handleInspectionSync(), or nothing. Only the first
\* script has a branch for 'sync-inspections'.
SyncDispatch(script, tag) ==
    IF tag = "upload-audio" THEN "audio"
    ELSE IF tag \in {"upload-file", "upload-photo"} THEN "files"
    ELSE IF tag = "sync-inspections" /\ script = 1 THEN "inspections"
    ELSE "none"

\* The platform fires a sync event and the listener of the active worker runs.
SyncEvent(tag) ==
    /\ ~syncEvent.alive
    /\ bg.pc \in {"idle", "done"}
    /\ LET work == SyncDispatch(worker.script, tag)
       IN  IF work = "inspections"
           THEN /\ BgBegin
                /\ fg' = fg
                /\ syncEvent' = [tag |-> tag, alive |-> TRUE, notice |-> "none"]
           ELSE /\ syncEvent' = [tag |-> tag, alive |-> work # "none", notice |-> work]
                /\ UNCHANGED queueVars
    /\ UNCHANGED <<oracle, flow, worker, caches, fetchEvent>>

\* showNotification resolves: the promise given to waitUntil settles.
NotificationShown ==
    /\ syncEvent.alive
    /\ syncEvent.notice # "none"
    /\ syncEvent' = [syncEvent EXCEPT !.alive = FALSE]
    /\ UNCHANGED <<queueVars, oracle, flow, worker, caches, fetchEvent>>

\* handleInspectionSync() resolves: the promise given to waitUntil settles.
InspectionSyncSettled ==
    /\ syncEvent.alive
    /\ syncEvent.notice = "none"
    /\ bg.pc = "done"
    /\ syncEvent' = [syncEvent EXCEPT !.alive = FALSE]
    /\ UNCHANGED <<queueVars, oracle, flow, worker, caches, fetchEvent>>

\* The platform fires the one-off sync that registerBackgroundSync registered.
\* A listener that passes nothing to waitUntil has handled the event at once,
\* and the registration is used up.
RegisteredSync ==
    /\ SYNC_TAG \in worker.tags
    /\ ~syncEvent.alive
    /\ bg.pc \in {"idle", "done"}
    /\ LET work == SyncDispatch(worker.script, SYNC_TAG)
       IN  IF work = "inspections"
           THEN /\ BgBegin
                /\ fg' = fg
                /\ syncEvent' = [tag |-> SYNC_TAG, alive |-> TRUE, notice |-> "none"]
                /\ worker' = worker
           ELSE /\ syncEvent' = [tag |-> SYNC_TAG, alive |-> FALSE, notice |-> work]
                /\ worker' = [worker EXCEPT !.tags = worker.tags \ {SYNC_TAG}]
                /\ UNCHANGED queueVars
    /\ UNCHANGED <<oracle, flow, caches, fetchEvent>>

\* handleInspectionSync() resolves, whatever happened to the records: the
\* promise given to waitUntil is fulfilled, the platform takes the sync for
\* done and drops the registration.
RegisteredSyncSettled ==
    /\ syncEvent.alive
    /\ syncEvent.tag = SYNC_TAG
    /\ syncEvent.notice = "none"
    /\ bg.pc = "done"
    /\ syncEvent' = [syncEvent EXCEPT !.alive = FALSE]
    /\ worker' = [worker EXCEPT !.tags = worker.tags \ {SYNC_TAG}]
    /\ UNCHANGED <<queueVars, oracle, flow, caches, fetchEvent>>

\* ---------------------------------------------------------------- activation
\* What a cache generation left behind by an earlier worker may hold.
OldCacheContents ==
    {NoCache,
     [exists |-> TRUE, urls |-> {}],
     InstalledCache,
     [exists |-> TRUE, urls |-> {"/", "/removed.html"}]}

\* caches.match(url): some existing cache holds an entry for the url.
CachesMatch(c, url) == \E name \in CacheNames : c[name].exists /\ url \in c[name].urls

\* Variant: only the generation right before the current one is deleted.
StaleCachesPreviousOnly(cacheNames) ==
    {name \in cacheNames : name = <<"tyokalu-app-v", CacheVersion - 1>>}

\* The names the activate handler deletes: every one that is not CACHE_NAME.
StaleCaches(cacheNames) == {name \in cacheNames : name # CACHE_NAME}

\* The platform activates a waiting worker once no client uses the
\* registration or the skip-waiting flag is set; the activate handler starts:
\* caches.keys() answers and clients.claim() is called.
ActivateBegin ==
    /\ worker.state = "installed"
    /\ worker.skipWaiting \/ worker.clients = {}
    /\ LET cacheNames == {name \in CacheNames : caches[name].exists}
       IN  worker' = [worker EXCEPT !.state = "activating",
                                    !.cacheNames = cacheNames,
                                    !.stale = StaleCaches(cacheNames),
                                    !.claimed = FALSE]
    /\ UNCHANGED <<queueVars, oracle, flow, syncEvent, caches, fetchEvent>>

\* One caches.delete(cacheName) completes.
CachesDelete(name) ==
    /\ worker.state = "activating"
    /\ name \in worker.stale
    /\ caches' = [caches EXCEPT ![name] = NoCache]
    /\ worker' = [worker EXCEPT !.stale = worker.stale \ {name}]
    /\ UNCHANGED <<queueVars, oracle, flow, syncEvent, fetchEvent>>

\* clients.claim() completes.
ClientsClaim ==
    /\ worker.state = "activating"
    /\ ~worker.claimed
    /\ worker' = [worker EXCEPT !.claimed = TRUE]
    /\ UNCHANGED <<queueVars, oracle, flow, syncEvent, caches, fetchEvent>>

\* Both promises of the Promise.all have resolved: the handler has completed.
ActivateEnd ==
    /\ worker.state = "activating"
    /\ worker.stale = {}
    /\ worker.claimed
    /\ worker' = [worker EXCEPT !.state = "activated"]
    /\ UNCHANGED <<queueVars, oracle, flow, syncEvent, caches, fetchEvent>>

\* ---------------------------------------------------------------- fetch events
\* Variant: every request is handled cache-first.
StrategyCacheFirst(pathname) == "cache-first"

\* The branch of the fetch listener a handled request takes.
Strategy(pathname) ==
    IF ShouldNotCache(pathname) THEN "network-first" ELSE "cache-first"

\* Variant: no request matches a cached entry.
RequestMatchesNever(c, request) == FALSE

\* caches.match(event.request) finds an entry: the stored entries are
\* responses of the worker's own origin.
RequestMatches(c, request) ==
    request.origin = SelfOrigin /\ CachesMatch(c, request.url)

\* Variant: the catch of the network-first branch answers with nothing.
NetworkFirstFallbackNone(c, request) == NoResponse

\* The catch of the network-first branch: caches.match(event.request).
NetworkFirstFallback(c, request) ==
    IF RequestMatches(c, request) THEN [source |-> "cache", url |-> request.url]
    ELSE NoResponse

\* The catch of the cache-first branch: caches.match('/') for navigations,
\* undefined otherwise.
CacheFirstFallback(c, request) ==
    IF request.mode = "navigate" /\ CachesMatch(c, "/")
    THEN [source |-> "cache", url |-> "/"]
    ELSE NoResponse

\* Variant: every successful basic response is stored.
ShouldStoreAnyPath(answer, pathname) ==
    answer.status = 200 /\ answer.type = "basic"

\* The cache-first branch stores a network response.
ShouldStore(answer, pathname) ==
    /\ answer.status = 200
    /\ answer.type = "basic"
    /\ pathname \in STATIC_CACHE_URLS

\* respondWith settles with a response, or with undefined / a rejection.
Responded(f, response) ==
    [f EXCEPT !.pc = IF response = NoResponse THEN "failed" ELSE "responded",
              !.response = response]

\* The platform dispatches a fetch event to the active worker; the listener
\* runs up to its first network fetch.
FetchEvent(request) ==
    /\ worker.state = "activated"
    /\ fetchEvent.pc # "fetching"
    /\ LET f == [NoFetch EXCEPT !.request = request]
       IN  fetchEvent' =
             IF request.method # "GET" \/ ~StartsWith(RequestUrl(request), SelfOrigin)
             THEN [f EXCEPT !.pc = "passed"]
             ELSE IF Strategy(Pathname(request.url)) = "network-first"
             THEN [f EXCEPT !.pc = "fetching", !.fetches = 1]
             ELSE IF RequestMatches(caches, request)
             THEN Responded([f EXCEPT !.lookups = 1],
                            [source |-> "cache", url |-> request.url])
             ELSE [f EXCEPT !.pc = "fetching", !.lookups = 1, !.fetches = 1]
    /\ UNCHANGED <<queueVars, oracle, flow, syncEvent, worker, caches>>

\* fetch(event.request) ends and the listener finishes: the response, the
\* fallback of the branch, and the cache.put of the cache-first branch.
FetchAnswered(answer) ==
    /\ fetchEvent.pc = "fetching"
    /\ answer # NetFail => (answer.type = "basic" <=> fetchEvent.request.origin = SelfOrigin)
    /\ LET request == fetchEvent.request
           pathname == Pathname(request.url)
           f == [fetchEvent EXCEPT !.answer = answer]
           network == [source |-> "network", url |-> request.url]
       IN  IF Strategy(pathname) = "network-first"
           THEN /\ fetchEvent' =
                     IF answer = NetFail
                     THEN Responded([f EXCEPT !.lookups = f.lookups + 1],
                                    NetworkFirstFallback(caches, request))
                     ELSE Responded(f, network)
                /\ caches' = caches
           ELSE IF answer = NetFail
           THEN /\ fetchEvent' =
                     Responded([f EXCEPT !.lookups =
                                   IF request.mode = "navigate" THEN f.lookups + 1
                                   ELSE f.lookups],
                               CacheFirstFallback(caches, request))
                /\ caches' = caches
           ELSE IF ShouldStore(answer, pathname)
           THEN /\ fetchEvent' = Responded([f EXCEPT !.wrote = TRUE], network)
                /\ caches' = [caches EXCEPT ![CACHE_NAME] =
                                [exists |-> TRUE,
                                 urls |-> caches[CACHE_NAME].urls \cup {request.url}]]
           ELSE /\ fetchEvent' = Responded(f, network)
                /\ caches' = caches
    /\ UNCHANGED <<queueVars, oracle, flow, syncEvent, worker>>

\* ---------------------------------------------------------------- install
\* Which manifest URLs cache.addAll may fail to fetch.
PrecacheFailures ==
    {{}, STATIC_CACHE_URLS} \cup {{url} : url \in STATIC_CACHE_URLS}

\* Variant: the install handler does not call skipWaiting.
InstallEventNoSkipWaiting ==
    /\ worker.state = "parsed"
    /\ worker' = [worker EXCEPT !.state = "installing"]
    /\ UNCHANGED <<queueVars, oracle, flow, syncEvent, caches, fetchEvent>>

\* The install handler starts: self.skipWaiting(), then waitUntil on the
\* pre-caching.
InstallEvent ==
    /\ worker.state = "parsed"
    /\ worker' = [worker EXCEPT !.state = "installing", !.skipWaiting = TRUE]
    /\ UNCHANGED <<queueVars, oracle, flow, syncEvent, caches, fetchEvent>>

\* Variant: the URLs that could be fetched are stored and install succeeds.
PrecacheEndsIgnoresFailure(failed) ==
    /\ worker.state = "installing"
    /\ caches' = [caches EXCEPT ![CACHE_NAME] =
                    [exists |-> TRUE,
                     urls |-> caches[CACHE_NAME].urls \cup (STATIC_CACHE_URLS \ failed)]]
    /\ worker' = [worker EXCEPT !.failed = failed, !.state = "installed"]
    /\ UNCHANGED <<queueVars, oracle, flow, syncEvent, fetchEvent>>

\* caches.open(CACHE_NAME) creates the cache and cache.addAll settles: it
\* stores every URL or none; a rejection fails the install.
PrecacheEnds(failed) ==
    /\ worker.state = "installing"
    /\ caches' = [caches EXCEPT ![CACHE_NAME] =
                    [exists |-> TRUE,
                     urls |-> IF failed = {}
                              THEN caches[CACHE_NAME].urls \cup STATIC_CACHE_URLS
                              ELSE caches[CACHE_NAME].urls]]
    /\ worker' = [worker EXCEPT !.failed = failed,
                                !.state = IF failed = {} THEN "installed"
                                          ELSE "redundant"]
    /\ UNCHANGED <<queueVars, oracle, flow, syncEvent, fetchEvent>>

\* ---------------------------------------------------------------- messages

\* The worker receives a message; for SKIP_WAITING the listener calls
\* self.skipWaiting().
MessageEvent(type) ==
    /\ worker.state \in {"installed", "activating", "activated"}
    /\ worker.message \in {"none", "done", "rejected"}
    /\ worker' = IF type = "SKIP_WAITING"
                 THEN [worker EXCEPT !.received = worker.received \cup {type},
                                     !.message = "skipping", !.notified = {}]
                 ELSE [worker EXCEPT !.received = worker.received \cup {type}]
    /\ UNCHANGED <<queueVars, oracle, flow, syncEvent, caches, fetchEvent>>

\* The skipWaiting() promise resolves, the flag is set; the listener calls
\* clients.claim().
SkipWaitingResolved ==
    /\ worker.message = "skipping"
    /\ worker' = [worker EXCEPT !.skipWaiting = TRUE, !.message = "claiming"]
    /\ UNCHANGED <<queueVars, oracle, flow, syncEvent, caches, fetchEvent>>

\* clients.claim() of the message listener settles: it rejects with
\* InvalidStateError unless the worker is the active worker, and the chain
\* has no catch.
ClaimSettled ==
    /\ worker.message = "claiming"
    /\ worker' = IF worker.state \in {"activating", "activated"}
                 THEN [worker EXCEPT !.claimed = TRUE, !.message = "matching"]
                 ELSE [worker EXCEPT !.message = "rejected"]
    /\ UNCHANGED <<queueVars, oracle, flow, syncEvent, caches, fetchEvent>>

\* clients.matchAll() answers with the controlled clients and each one is
\* sent SW_UPDATED.
NotifyClients ==
    /\ worker.message = "matching"
    /\ worker' = [worker EXCEPT !.message = "done",
                                !.notified = IF worker.claimed THEN worker.clients
                                             ELSE {}]
    /\ UNCHANGED <<queueVars, oracle, flow, syncEvent, caches, fetchEvent>>

\* ---------------------------------------------------------------- faults
\* keys() rejects at the start of getAllInspections: nothing catches it, the
\* promise of syncAllInspections rejects.
FgKeysFail ==
    /\ fg.pc \in {"idle", "done", "rejected"}
    /\ fg' = [FgIdle EXCEPT !.pc = "rejected", !.error = "storage"]
    /\ UNCHANGED <<store, apiResult, bg>>

\* Variant: getAllInspections catches the rejected get and returns the records
\* read so far.
FgGetFailKeepsGoing ==
    /\ fg.pc = "listing"
    /\ fg' = FgListed([fg EXCEPT !.error = "storage"], fg.inspections)
    /\ UNCHANGED <<store, apiResult, bg>>

\* get(key) rejects inside getAllInspections.
FgGetFail ==
    /\ fg.pc = "listing"
    /\ fg' = [fg EXCEPT !.pc = "rejected", !.error = "storage"]
    /\ UNCHANGED <<store, apiResult, bg>>

\* keys() rejects in handleInspectionSync: the outer catch logs, the handler
\* returns.
BgKeysFail ==
    /\ bg.pc \in {"idle", "done"}
    /\ bg' = [BgIdle EXCEPT !.pc = "done", !.error = "storage"]
    /\ UNCHANGED <<store, apiResult, fg>>

\* get(key) rejects inside the for loop: the outer catch ends the handler,
\* the notification after the loop is skipped.
BgGetFail ==
    /\ bg.pc = "getting"
    /\ bg' = [bg EXCEPT !.pc = "done", !.error = "storage"]
    /\ UNCHANGED <<store, apiResult, fg>>

\* The POST is never answered: fetch has no timeout or abort signal, the
\* await does not resume.
FgPostHangs ==
    /\ fg.pc = "fetching"
    /\ fg' = [fg EXCEPT !.pc = "hung"]
    /\ UNCHANGED <<store, apiResult, bg>>

BgPostHangs ==
    /\ bg.pc = "fetching"
    /\ bg' = [bg EXCEPT !.pc = "hung"]
    /\ UNCHANGED <<store, apiResult, fg>>

\* ---------------------------------------------------------------- environment
\* The application and the worker are restarted: only the database survives.
Restart ==
    /\ fg # FgIdle \/ bg # BgIdle \/ apiResult # NoCall
    /\ fg' = FgIdle
    /\ bg' = BgIdle
    /\ apiResult' = NoCall
    /\ UNCHANGED store

\* ---------------------------------------------------------------- specifications
\* Window and worker interleave freely with saves and removals.
Next ==
    \/ \E inspection \in OfflineInspection : saveInspection(inspection) /\ UNCHANGED platformVars
    \/ \E id \in Ids : removeInspection(id) /\ UNCHANGED platformVars
    \/ FgStart /\ UNCHANGED platformVars
    \/ FgGet /\ UNCHANGED platformVars
    \/ \E outcome \in Outcomes : FgResponse(outcome) /\ UNCHANGED platformVars
    \/ FgRemove /\ UNCHANGED platformVars
    \/ BgStart /\ UNCHANGED platformVars
    \/ BgGet /\ UNCHANGED platformVars
    \/ \E outcome \in Outcomes : BgResponse(outcome) /\ UNCHANGED platformVars
    \/ BgRemove /\ UNCHANGED platformVars
    \/ Restart /\ UNCHANGED platformVars

Spec == Init /\ [][Next]_vars

\* The application window alone: the store API and its own sync cycle.
WindowNext ==
    \/ \E inspection \in OfflineInspection : saveInspection(inspection) /\ UNCHANGED platformVars
    \/ \E id \in Ids : removeInspection(id) /\ UNCHANGED platformVars
    \/ FgStart /\ UNCHANGED platformVars
    \/ FgGet /\ UNCHANGED platformVars
    \/ \E outcome \in Outcomes : FgResponse(outcome) /\ UNCHANGED platformVars
    \/ FgRemove /\ UNCHANGED platformVars
    \/ Restart /\ UNCHANGED platformVars

WindowSpec == Init /\ [][WindowNext]_vars

\* One sync cycle at a time, nothing else touching the database.
FgQuiet == fg.pc \in {"idle", "done", "rejected"}
BgQuiet == bg.pc \in {"idle", "done"}

SoloFgStart == BgQuiet /\ FgBegin /\ bg' = BgIdle
SoloBgStart == FgQuiet /\ BgBegin /\ fg' = FgIdle

SoloNext ==
    \/ SoloFgStart /\ UNCHANGED platformVars
    \/ FgGet /\ UNCHANGED platformVars
    \/ \E outcome \in Outcomes : FgResponse(outcome) /\ UNCHANGED platformVars
    \/ FgRemove /\ UNCHANGED platformVars
    \/ SoloBgStart /\ UNCHANGED platformVars
    \/ BgGet /\ UNCHANGED platformVars
    \/ \E outcome \in Outcomes : BgResponse(outcome) /\ UNCHANGED platformVars
    \/ BgRemove /\ UNCHANGED platformVars

SoloSpec == Init /\ [][SoloNext]_vars

\* One sync cycle at a time, with records being saved meanwhile and the
\* application and worker being killed at any point.
CrashNext ==
    \/ SoloNext
    \/ \E inspection \in OfflineInspection : saveInspection(inspection) /\ UNCHANGED platformVars
    \/ Restart /\ UNCHANGED platformVars

CrashSpec == Init /\ [][CrashNext]_vars

\* A foreground cycle, then a background cycle on the store it left.
PairNext ==
    \/ fg.pc = "idle" /\ bg.pc = "idle" /\ FgStart /\ UNCHANGED platformVars
    \/ FgGet /\ UNCHANGED platformVars
    \/ \E outcome \in Outcomes : FgResponse(outcome) /\ UNCHANGED platformVars
    \/ FgRemove /\ UNCHANGED platformVars
    \/ fg.pc = "done" /\ bg.pc = "idle" /\ BgStart /\ UNCHANGED platformVars
    \/ BgGet /\ UNCHANGED platformVars
    \/ \E outcome \in Outcomes : BgResponse(outcome) /\ UNCHANGED platformVars
    \/ BgRemove /\ UNCHANGED platformVars

PairSpec == Init /\ [][PairNext]_vars

\* One sync cycle at a time on storage and a network that may fail.
FaultFgStart == SoloFgStart /\ UNCHANGED platformVars
FaultFgKeysFail == BgQuiet /\ FgKeysFail /\ UNCHANGED platformVars
FaultFgGet == FgGet /\ UNCHANGED platformVars
FaultFgGetFail == FgGetFail /\ UNCHANGED platformVars
FaultFgResponse == (\E outcome \in Outcomes : FgResponse(outcome)) /\ UNCHANGED platformVars
FaultFgPostHangs == FgPostHangs /\ UNCHANGED platformVars
FaultFgRemove == FgRemove /\ UNCHANGED platformVars
FaultBgStart == SoloBgStart /\ UNCHANGED platformVars
FaultBgKeysFail == FgQuiet /\ BgKeysFail /\ UNCHANGED platformVars
FaultBgGet == BgGet /\ UNCHANGED platformVars
FaultBgGetFail == BgGetFail /\ UNCHANGED platformVars
FaultBgResponse == (\E outcome \in Outcomes : BgResponse(outcome)) /\ UNCHANGED platformVars
FaultBgPostHangs == BgPostHangs /\ UNCHANGED platformVars
FaultBgRemove == BgRemove /\ UNCHANGED platformVars

FaultNext ==
    \/ FaultFgStart
    \/ FaultFgKeysFail
    \/ FaultFgGet
    \/ FaultFgGetFail
    \/ FaultFgResponse
    \/ FaultFgPostHangs
    \/ FaultFgRemove
    \/ FaultBgStart
    \/ FaultBgKeysFail
    \/ FaultBgGet
    \/ FaultBgGetFail
    \/ FaultBgResponse
    \/ FaultBgPostHangs
    \/ FaultBgRemove

FaultSpec == Init /\ [][FaultNext]_vars

\* The same, with what the event loop guarantees: a storage operation that
\* was issued completes, and a response that arrives is handled.
FaultLiveSpec ==
    /\ FaultSpec
    /\ WF_vars(FaultFgGet) /\ WF_vars(FaultFgResponse) /\ WF_vars(FaultFgRemove)
    /\ WF_vars(FaultBgGet) /\ WF_vars(FaultBgResponse) /\ WF_vars(FaultBgRemove)

\* The capture side of the window: connectivity checks and offline saves.
CaptureNext ==
    \/ \E flag \in BOOLEAN : IsOnlineCall(flag)
    \/ \E answer \in ProbeAnswers : ProbeEnds(answer)
    \/ ProbeHangs
    \/ \E inspection \in OfflineInspection, saved \in BOOLEAN :
          OfflineStorageSave(inspection, saved)
    \/ \E support \in SyncSupport : OfflineStorageRegister(support)
    \/ \E spoken \in BOOLEAN : OfflineStorageSpoken(spoken)

CaptureSpec == Init /\ [][CaptureNext]_vars

\* The same, with a probe response that arrives being handled.
CaptureLiveSpec ==
    CaptureSpec /\ WF_vars(\E answer \in ProbeAnswers : ProbeEnds(answer))

\* One capture at a time, from the connectivity check to the end of
\* takePhotoAndContinue.
FlowNext ==
    \/ \E flag \in BOOLEAN : TakePhotoAndContinue(flag)
    \/ \E answer \in ProbeAnswers : ProbeEnds(answer)
    \/ ProbeHangs
    \/ CaptureConnectivityKnown
    \/ \E spoken \in BOOLEAN : CaptureAnnounced(spoken)
    \/ \E outcome \in Outcomes, rest \in BOOLEAN : CapturePostEnds(outcome, rest)
    \/ \E inspection \in OfflineInspection, saved \in BOOLEAN :
          flow.pc = "saving" /\ OfflineStorageSave(inspection, saved)
    \/ \E support \in SyncSupport : OfflineStorageRegister(support)
    \/ \E spoken \in BOOLEAN : OfflineStorageSpoken(spoken)

FlowSpec == Init /\ [][FlowNext]_vars

\* The service worker on its own: either script may be the one deployed.
WorkerInit ==
    /\ QueueInit
    /\ oracle = OracleIdle
    /\ flow = FlowIdle
    /\ syncEvent = NoEvent
    /\ \E script \in WorkerScripts : worker = [ActiveWorker EXCEPT !.script = script]
    /\ caches = [name \in CacheNames |-> IF name = CACHE_NAME THEN InstalledCache ELSE NoCache]
    /\ fetchEvent = NoFetch

WorkerBgGet == BgGet /\ UNCHANGED platformVars
WorkerBgResponse == (\E outcome \in Outcomes : BgResponse(outcome)) /\ UNCHANGED platformVars
WorkerBgRemove == BgRemove /\ UNCHANGED platformVars

WorkerNext ==
    \/ \E tag \in SyncTags : SyncEvent(tag)
    \/ NotificationShown
    \/ InspectionSyncSettled
    \/ WorkerBgGet
    \/ WorkerBgResponse
    \/ WorkerBgRemove

WorkerSpec == WorkerInit /\ [][WorkerNext]_vars

\* Offline saves that register the sync, and the worker running the
\* registered sync.
RetryNext ==
    \/ \E inspection \in OfflineInspection, saved \in BOOLEAN :
          OfflineStorageSave(inspection, saved)
    \/ \E support \in SyncSupport : OfflineStorageRegister(support)
    \/ \E spoken \in BOOLEAN : OfflineStorageSpoken(spoken)
    \/ RegisteredSync
    \/ WorkerBgGet
    \/ WorkerBgResponse
    \/ WorkerBgRemove
    \/ RegisteredSyncSettled

\* The platform fires a registered sync and the worker's cycle goes on;
\* nothing makes the user save another record.
RetryLiveSpec ==
    /\ WorkerInit
    /\ [][RetryNext]_vars
    /\ WF_vars(RegisteredSync)
    /\ WF_vars(WorkerBgGet)
    /\ WF_vars(WorkerBgResponse)
    /\ WF_vars(WorkerBgRemove)
    /\ WF_vars(RegisteredSyncSettled)

\* A worker that has installed its cache and is about to activate, with any
\* older generations around.
CacheInit ==
    /\ QueueInit
    /\ oracle = OracleIdle
    /\ flow = FlowIdle
    /\ syncEvent = NoEvent
    /\ \E script \in WorkerScripts :
          worker = [ActiveWorker EXCEPT !.script = script, !.state = "installed",
                                        !.claimed = FALSE]
    /\ caches \in [CacheNames -> OldCacheContents]
    /\ caches[CACHE_NAME] = InstalledCache
    /\ caches[NextCacheName] = NoCache
    /\ fetchEvent = NoFetch

CacheNext ==
    \/ ActivateBegin
    \/ \E name \in CacheNames : CachesDelete(name)
    \/ ClientsClaim
    \/ ActivateEnd

CacheSpec == CacheInit /\ [][CacheNext]_vars

\* The fetch listener of the activated worker, over the cache install left.
FetchNext ==
    \/ \E request \in Request : FetchEvent(request)
    \/ \E answer \in Answers : FetchAnswered(answer)

\* The offline queue at rest and empty: the worker's cache and lifecycle
\* code never reads it.
EmptyQueueInit ==
    /\ store = [key \in AllKeys |-> IF key = OtherKey THEN OtherValue ELSE Undefined]
    /\ apiResult = NoCall
    /\ fg = FgIdle
    /\ bg = BgIdle

FetchInit == EmptyQueueInit /\ PlatformInit

FetchSpec == FetchInit /\ [][FetchNext]_vars

\* The next version of the script is installed while this worker is active:
\* its install handler fills its own generation with its manifest (the same
\* URLs, or one more); this worker goes on serving until the new one
\* activates.
NextVersionInstalled(manifest) ==
    /\ worker.state = "activated"
    /\ ~caches[NextCacheName].exists
    /\ caches' = [caches EXCEPT ![NextCacheName] = [exists |-> TRUE, urls |-> manifest]]
    /\ UNCHANGED <<queueVars, oracle, flow, syncEvent, worker, fetchEvent>>

\* The fetch listener of the active worker between the installation of the
\* next version and its activation.
GenerationNext ==
    \/ FetchNext
    \/ \E manifest \in {STATIC_CACHE_URLS, STATIC_CACHE_URLS \cup {"/dashboard"}} :
          NextVersionInstalled(manifest)

GenerationSpec == FetchInit /\ [][GenerationNext]_vars

\* Entries a build of the worker without the never-cache rule stored under
\* the same cache name: neither install nor activate clears the current cache.
StaleFetchInit ==
    /\ EmptyQueueInit
    /\ oracle = OracleIdle
    /\ flow = FlowIdle
    /\ syncEvent = NoEvent
    /\ worker = ActiveWorker
    /\ \E stale \in {{}, {"/assets/app.3f2a.js"},
                      {"/assets/app.3f2a.js", "/styles.css", "/dashboard"}} :
          caches = [name \in CacheNames |->
                       IF name = CACHE_NAME
                       THEN [exists |-> TRUE, urls |-> STATIC_CACHE_URLS \cup stale]
                       ELSE NoCache]
    /\ fetchEvent = NoFetch

StaleFetchSpec == StaleFetchInit /\ [][FetchNext]_vars

\* A new worker from the evaluation of its script to activation, with any
\* older cache generations around and any application instances open.
LifecycleInit ==
    /\ EmptyQueueInit
    /\ oracle = OracleIdle
    /\ flow = FlowIdle
    /\ syncEvent = NoEvent
    /\ \E script \in WorkerScripts, clients \in SUBSET Clients :
          worker = [ActiveWorker EXCEPT !.script = script, !.state = "parsed",
                                        !.claimed = FALSE, !.skipWaiting = FALSE,
                                        !.clients = clients]
    /\ caches \in [CacheNames -> OldCacheContents]
    /\ caches[CACHE_NAME] = NoCache
    /\ caches[NextCacheName] = NoCache
    /\ fetchEvent = NoFetch

LifecycleNext ==
    \/ InstallEvent
    \/ \E failed \in PrecacheFailures : PrecacheEnds(failed)
    \/ ActivateBegin
    \/ \E name \in CacheNames : CachesDelete(name)
    \/ ClientsClaim
    \/ ActivateEnd
    \/ \E type \in {"SKIP_WAITING", "OTHER"} : MessageEvent(type)
    \/ SkipWaitingResolved
    \/ ClaimSettled
    \/ NotifyClients

LifecycleSpec == LifecycleInit /\ [][LifecycleNext]_vars

\* The same, with what the platform guarantees: lifecycle steps that can be
\* taken are taken, and promises of the Cache and Clients API settle.
LifecycleLiveSpec ==
    /\ LifecycleSpec
    /\ WF_vars(InstallEvent)
    /\ WF_vars(ActivateBegin)
    /\ WF_vars(\E name \in CacheNames : CachesDelete(name))
    /\ WF_vars(ClientsClaim)
    /\ WF_vars(ActivateEnd)
    /\ WF_vars(SkipWaitingResolved)
    /\ WF_vars(ClaimSettled)
    /\ WF_vars(NotifyClients)

\* ---------------------------------------------------------------- properties
Pending(s) == {id \in Ids : s[Key(id)] # Undefined}

\* The endpoint accepted the POST: a 2xx response with a JSON body.
PostSucceeded(outcome) == outcome = "ok"

\* C1: when a syncAllInspections run on its own has returned, every record
\* whose POST succeeded is gone from the store, every record whose POST failed
\* is still stored unchanged, nothing else is stored or was touched, and
\* synced / failed are the numbers of successes / failures.
C1_SyncRemovesExactlySucceeded ==
    fg.pc = "done" =>
        LET ok == {n \in 1..Len(fg.responses) : PostSucceeded(fg.responses[n])}
            ko == {n \in 1..Len(fg.responses) : ~PostSucceeded(fg.responses[n])}
        IN  /\ Len(fg.responses) = Len(fg.inspections)
            /\ \A n \in ok : store[Key(fg.inspections[n].id)] = Undefined
            /\ \A n \in ko : store[Key(fg.inspections[n].id)] = fg.inspections[n]
            /\ Pending(store) = {fg.inspections[n].id : n \in ko}
            /\ store[OtherKey] = OtherValue
            /\ fg.synced = Cardinality(ok)
            /\ fg.failed = Cardinality(ko)

\* A run in which the first listed record failed and the second succeeded.
C1_Witness ==
    /\ fg.pc = "done"
    /\ fg.responses = <<"http", "ok">>
    /\ fg.synced = 1
    /\ fg.failed = 1

\* C2: syncAllInspections POSTs the listed records one at a time in ascending
\* timestamp order: the listing is ascending, the POSTs issued so far are its
\* first i records in that order, a POST is issued only when every earlier
\* record has its result (and, if synced, has been removed), and the results
\* list follows the same order.
C2_ForegroundFifo ==
    fg.pc \in {"fetching", "removing", "done"} =>
        /\ \A m, n \in 1..Len(fg.inspections) :
              m < n => fg.inspections[m].timestamp <= fg.inspections[n].timestamp
        /\ fg.posted = SubSeq(fg.inspections, 1, fg.i)
        /\ Len(fg.results) = IF fg.pc = "done" THEN fg.i ELSE fg.i - 1
        /\ \A n \in 1..Len(fg.results) :
              /\ fg.results[n].id = fg.inspections[n].id
              /\ fg.results[n].success => store[Key(fg.results[n].id)] = Undefined

\* A finished run over two records whose timestamp order is the reverse of
\* their key order.
C2_Witness ==
    /\ fg.pc = "done"
    /\ Len(fg.results) = 2
    /\ fg.inspections[1].timestamp < fg.inspections[2].timestamp
    /\ fg.inspections[1].id > fg.inspections[2].id

\* C3: handleInspectionSync POSTs the queued records in ascending timestamp
\* order, whatever their ids.
C3_BackgroundFifo ==
    \A m, n \in 1..Len(bg.posted) :
        m < n => bg.posted[m].timestamp <= bg.posted[n].timestamp

\* C4: no two POSTs for the same record id are in flight at the same time.
C4_NoConcurrentAttempt ==
    ~ /\ fg.pc = "fetching"
      /\ bg.pc = "fetching"
      /\ fg.inspections[fg.i].id = bg.cur.id

\* A step that takes the record with this id out of the store legitimately:
\* removeInspection(id), or the removal that follows a successful POST of it.
RemovedOrSynced(id) ==
    \/ removeInspection(id)
    \/ fg.pc = "removing" /\ fg.inspections[fg.i].id = id /\ FgRemove
    \/ bg.pc = "removing" /\ bg.keys[bg.k] = Key(id) /\ BgRemove

\* C5: every stored record is in the listing of getAllInspections, and a stored
\* record stays stored as it is until it is removed or synced.
C5_Durable ==
    /\ [](\A id \in Pending(store) :
            \E n \in 1..Len(getAllInspections(store)) :
                getAllInspections(store)[n] = store[Key(id)])
    /\ [][\A id \in Pending(store) :
            store'[Key(id)] # store[Key(id)] => RemovedOrSynced(id)]_vars

\* C6: saving a record whose id is already stored fails with a duplicate-key
\* error and leaves the stored record as it was.
C6_SaveNeverOverwrites ==
    [][\A inspection \in OfflineInspection :
        (inspection.id \in Pending(store) /\ saveInspection(inspection)) =>
            /\ store'[Key(inspection.id)] = store[Key(inspection.id)]
            /\ apiResult'.threw]_vars

\* removeInspection as a function of the database: what the call leaves
\* behind and whether it rejected.
RemoveOutcome(s, id) == IdbDel(s, Key(id))

\* C7: removeInspection never rejects, whether or not the id is stored; a
\* second call for the same id changes nothing any more; the id is not stored
\* afterwards and every other key keeps its value.
C7_RemoveIdempotent ==
    /\ \A id \in Ids :
          LET once == RemoveOutcome(store, id)
              twice == RemoveOutcome(once.store, id)
          IN  /\ ~once.threw
              /\ ~twice.threw
              /\ twice.store = once.store
              /\ once.store[Key(id)] = Undefined
              /\ \A key \in AllKeys \ {Key(id)} : once.store[key] = store[key]
    /\ apiResult.op = "remove" =>
          /\ ~apiResult.threw
          /\ store[Key(apiResult.id)] = Undefined

\* removeInspection has been called while another record is stored.
C7_Witness ==
    /\ apiResult.op = "remove"
    /\ ~apiResult.threw
    /\ Pending(store) # {}
    /\ apiResult.id \notin Pending(store)

\* C8: a POST that ends in a non-2xx status, a network error or an unparsable
\* 2xx body makes syncInspection return success = false with an error detail
\* and never throw; the record of a failed result is still stored unchanged
\* and was POSTed exactly once in the cycle.
C8_FailureIsReported ==
    /\ \A outcome \in Outcomes \ {"ok"} :
          /\ ~SyncInspection(outcome).threw
          /\ ~SyncInspection(outcome).success
          /\ SyncInspection(outcome).error # "none"
    /\ fg.pc # "rejected"
    /\ \A n \in 1..Len(fg.responses) :
          ~PostSucceeded(fg.responses[n]) =>
              /\ n <= Len(fg.results)
              /\ fg.results[n].id = fg.inspections[n].id
              /\ ~fg.results[n].success
              /\ fg.results[n].error # "none"
              /\ store[Key(fg.inspections[n].id)] = fg.inspections[n]
              /\ Cardinality({m \in 1..Len(fg.posted) :
                                fg.posted[m].id = fg.inspections[n].id}) = 1

\* A finished cycle with a record that failed on an unparsable body and one
\* that failed otherwise.
C8_Witness ==
    /\ fg.pc = "done"
    /\ fg.responses = <<"badjson", "neterr">>
    /\ fg.failed = 2

\* C9: a syncAllInspections cycle that has returned POSTed every listed record
\* exactly once: one result and one POST per listed record, in listing order,
\* no id twice, and synced + failed is the number of listed records.
C9_EveryListedRecordOnce ==
    /\ fg.synced + fg.failed = Len(fg.results)
    /\ fg.pc = "done" =>
          /\ Len(fg.results) = Len(fg.inspections)
          /\ fg.posted = fg.inspections
          /\ fg.synced + fg.failed = Len(fg.inspections)
          /\ \A n \in 1..Len(fg.results) : fg.results[n].id = fg.inspections[n].id
          /\ \A m, n \in 1..Len(fg.results) :
                fg.results[m].id = fg.results[n].id => m = n

\* A finished cycle over two records whose first POST failed.
C9_Witness ==
    /\ fg.pc = "done"
    /\ Len(fg.inspections) = 2
    /\ ~fg.results[1].success
    /\ Len(fg.posted) = 2

C11_ListFailureAborts ==
    fg.error = "storage" =>
        /\ fg.pc = "rejected"
        /\ fg.posted = <<>>
        /\ fg.responses = <<>>
        /\ fg.results = <<>>
        /\ fg.synced = 0 /\ fg.failed = 0
        /\ \A n \in 1..Len(fg.keys) : store[fg.keys[n]] # Undefined
        /\ store[OtherKey] = OtherValue

\* A get() rejected after an earlier record had been read.
C11_Witness ==
    /\ fg.error = "storage"
    /\ fg.pc = "rejected"
    /\ Len(fg.inspections) = 1
    /\ Len(fg.keys) = 2

\* C12: in handleInspectionSync a rejected keys() or get() ends the cycle
\* without any POST made in it, and a cycle without storage failure attempts
\* every listed record whatever the earlier POSTs answered.
C12_StoreFailureBeforeAnyPost ==
    /\ bg.error = "storage" => bg.pc = "done" /\ bg.posted = <<>>
    /\ (bg.pc = "done" /\ bg.error = "none") => Len(bg.posted) = Len(bg.keys)

\* An accepted POST in the eyes of handleInspectionSync's contract: HTTP 2xx.
PostAccepted(outcome) == outcome \in {"ok", "badjson"}

\* C13: when a background cycle has ended, a notification has been shown if
\* and only if a record was synced in it, and it carries the numbers of
\* synced and failed records.
C13_NotificationIffSynced ==
    bg.pc = "done" =>
        LET ok == {n \in 1..Len(bg.responses) : PostAccepted(bg.responses[n])}
            ko == {n \in 1..Len(bg.responses) : ~PostAccepted(bg.responses[n])}
        IN  /\ bg.notice.shown <=> ok # {}
            /\ bg.notice.shown => /\ bg.notice.synced = Cardinality(ok)
                                  /\ bg.notice.failed = Cardinality(ko)

\* C16: a sync cycle whose POST is in flight or unanswered eventually ends.
C16_CycleTerminates ==
    /\ (fg.pc \in {"fetching", "hung"}) ~> (fg.pc \in {"done", "rejected"})
    /\ (bg.pc \in {"fetching", "hung"}) ~> (bg.pc = "done")

\* C14: once isOnline has returned: with the connectivity flag false it
\* issued no request and returned false; with the flag true it issued exactly
\* one HEAD probe and returned true exactly when the probe ended with an ok
\* status (false when the probe threw).
C14_IsOnlineTwoStep ==
    /\ oracle.pc = "returned" =>
          IF ~oracle.flag
          THEN oracle.probes = 0 /\ oracle.answer = "none" /\ ~oracle.result
          ELSE oracle.probes = 1 /\ (oracle.result <=> oracle.answer = "ok")
    /\ oracle.probes <= 1

\* isOnline returned false on a probe that was answered with a non-ok status.
C14_Witness ==
    /\ oracle.pc = "returned"
    /\ oracle.flag
    /\ oracle.answer = "notok"
    /\ ~oracle.result

\* C15: an isOnline call that has issued its probe eventually returns.
C15_IsOnlineReturns ==
    (oracle.pc \in {"probing", "hung"}) ~> (oracle.pc = "returned")

\* C17: whatever becomes of the registration, registerBackgroundSync returns
\* normally: handleOfflineStorage goes on to flowState 'complete' and the
\* saved record is in the store.
C17_RegistrationNeverFatal ==
    [][(flow.pc = "registering" /\ flow'.pc # "registering") =>
        /\ flow'.pc = "speaking"
        /\ flow'.state = "complete"
        /\ store'[Key(flow.inspection.id)] = flow.inspection
        /\ flow.inspection \in OfflineInspection]_vars

\* handleOfflineStorage reached 'complete' although register() rejected.
C17_Witness ==
    /\ flow.pc = "speaking"
    /\ flow.state = "complete"
    /\ flow.sync = "failed"
    /\ store[Key(flow.inspection.id)] = flow.inspection

\* C18: a sync event with the tag 'sync-inspections' starts a sync cycle over
\* the stored records and stays alive; it ends only when the cycle is done.
C18_SyncTagRunsCycle ==
    [][/\ (~syncEvent.alive /\ syncEvent' # syncEvent /\ syncEvent'.tag = SYNC_TAG) =>
            /\ syncEvent'.alive
            /\ bg'.pc \in {"getting", "done"}
            /\ bg'.keys = SelectSeq(IdbKeys(store), IsOfflineKey)
       /\ (syncEvent.alive /\ syncEvent.tag = SYNC_TAG /\ ~syncEvent'.alive) =>
            bg.pc = "done"]_vars

\* C19: a sync event with a legacy tag shows a notification and, from firing
\* to its end, leaves the store, the endpoint and both sync cycles untouched;
\* a sync event with an unrecognised tag changes nothing and ends at once.
C19_LegacyTagsOnlyNotify ==
    [][/\ (~syncEvent.alive /\ syncEvent' # syncEvent /\ syncEvent'.tag \in LegacyTags) =>
            /\ UNCHANGED queueVars
            /\ syncEvent'.notice \in {"audio", "files"}
       /\ (syncEvent.alive /\ syncEvent.tag \in LegacyTags) => UNCHANGED queueVars
       /\ (~syncEvent.alive /\ syncEvent' # syncEvent /\ syncEvent'.tag = "unknown-tag") =>
            /\ UNCHANGED queueVars
            /\ ~syncEvent'.alive
            /\ syncEvent'.notice = "none"]_vars

\* An 'upload-photo' event came and went over a store with two records under
\* the script that has the inspection sync: only its notification shows.
C19_Witness ==
    /\ syncEvent.tag = "upload-photo"
    /\ ~syncEvent.alive
    /\ syncEvent.notice = "files"
    /\ worker.script = 1
    /\ Cardinality(Pending(store)) = 2
    /\ bg = BgIdle

\* C20: once the activate handler has completed, the cache named CACHE_NAME
\* is the only one that exists, and whatever caches.match finds is an entry of
\* that cache.
C20_OnlyCurrentGeneration ==
    worker.state = "activated" =>
        /\ \A name \in CacheNames : caches[name].exists <=> name = CACHE_NAME
        /\ \A url \in STATIC_CACHE_URLS \cup {"/removed.html"} :
              CachesMatch(caches, url) => url \in caches[CACHE_NAME].urls

\* An activation that found every older generation present has completed.
C20_Witness ==
    /\ worker.state = "activated"
    /\ OldCacheNames \subseteq worker.cacheNames
    /\ worker.claimed

\* The handled request of the last fetch event took the never-cache branch.
NeverCacheRequest ==
    /\ fetchEvent.request.method = "GET"
    /\ StartsWith(RequestUrl(fetchEvent.request), SelfOrigin)
    /\ ShouldNotCache(Pathname(fetchEvent.request.url))

\* The handled request of the last fetch event took the cache-first branch.
CacheFirstRequest ==
    /\ fetchEvent.request.method = "GET"
    /\ StartsWith(RequestUrl(fetchEvent.request), SelfOrigin)
    /\ ~ShouldNotCache(Pathname(fetchEvent.request.url))

\* C21: a never-cache request whose network fetch completed is answered with
\* the network response, whatever the cache holds, without any cache lookup;
\* a never-cache request never writes to the cache.
C21_NeverCacheFromNetwork ==
    (NeverCacheRequest /\ fetchEvent.pc # "idle") =>
        /\ ~fetchEvent.wrote
        /\ fetchEvent.pc = "fetching" => fetchEvent.lookups = 0 /\ fetchEvent.fetches = 1
        /\ (fetchEvent.pc # "fetching" /\ fetchEvent.answer # NetFail) =>
              /\ fetchEvent.pc = "responded"
              /\ fetchEvent.response =
                    [source |-> "network", url |-> fetchEvent.request.url]
              /\ fetchEvent.lookups = 0
              /\ fetchEvent.fetches = 1

\* The network answered a request for /assets/app.3f2a.js while the current
\* cache held a stale copy of it.
C21_Witness ==
    /\ fetchEvent.pc = "responded"
    /\ fetchEvent.request.url = "/assets/app.3f2a.js"
    /\ fetchEvent.request.origin = SelfOrigin
    /\ "/assets/app.3f2a.js" \in caches[CACHE_NAME].urls
    /\ fetchEvent.answer.status = 200
    /\ fetchEvent.response.source = "network"

\* C22: for a never-cache request the cache is looked up only once the network
\* fetch has failed; the answer is then the cached entry for the request if
\* there is one, and the request fails if there is none.
C22_NeverCacheFallback ==
    (NeverCacheRequest /\ fetchEvent.pc # "idle") =>
        /\ fetchEvent.lookups > 0 => fetchEvent.answer = NetFail
        /\ fetchEvent.answer = NetFail =>
              /\ fetchEvent.lookups = 1
              /\ IF RequestMatches(caches, fetchEvent.request)
                 THEN /\ fetchEvent.pc = "responded"
                      /\ fetchEvent.response =
                            [source |-> "cache", url |-> fetchEvent.request.url]
                 ELSE /\ fetchEvent.pc = "failed"
                      /\ fetchEvent.response = NoResponse

\* The network failed for /assets/app.3f2a.js and the stale copy was served.
C22_Witness ==
    /\ fetchEvent.pc = "responded"
    /\ fetchEvent.request.url = "/assets/app.3f2a.js"
    /\ fetchEvent.answer = NetFail
    /\ fetchEvent.response.source = "cache"

\* C23: a handled request outside the never-cache classification that has a
\* cache entry is answered from the cache with no network fetch; with the
\* cache as install left it this covers every URL of the static manifest.
C23_CachedServedWithoutNetwork ==
    /\ (CacheFirstRequest /\ fetchEvent.pc # "idle"
            /\ RequestMatches(caches, fetchEvent.request) /\ ~fetchEvent.wrote) =>
          /\ fetchEvent.pc = "responded"
          /\ fetchEvent.response = [source |-> "cache", url |-> fetchEvent.request.url]
          /\ fetchEvent.fetches = 0
    /\ (fetchEvent.request.method = "GET" /\ fetchEvent.request.origin = SelfOrigin
            /\ fetchEvent.request.url \in STATIC_CACHE_URLS) =>
          /\ fetchEvent.pc = "responded"
          /\ fetchEvent.response.source = "cache"
          /\ fetchEvent.fetches = 0

\* /index.html was served from the cache.
C23_Witness ==
    /\ fetchEvent.pc = "responded"
    /\ fetchEvent.request.url = "/index.html"
    /\ fetchEvent.request.origin = SelfOrigin
    /\ fetchEvent.response = [source |-> "cache", url |-> "/index.html"]
    /\ fetchEvent.fetches = 0

\* C24: the current cache holds only entries whose pathname is in the static
\* manifest, and a fetch event that wrote to it had a manifest pathname and
\* a network response with status 200 and type 'basic'.
C24_CacheHoldsManifestOnly ==
    /\ \A url \in caches[CACHE_NAME].urls : Pathname(url) \in STATIC_CACHE_URLS
    /\ fetchEvent.wrote =>
          /\ Pathname(fetchEvent.request.url) \in STATIC_CACHE_URLS
          /\ fetchEvent.answer.status = 200
          /\ fetchEvent.answer.type = "basic"
          /\ fetchEvent.request.url \in caches[CACHE_NAME].urls

\* A response for a manifest pathname that missed the cache was stored.
C24_Witness ==
    /\ fetchEvent.wrote
    /\ fetchEvent.request.url = "/index.html?v=1"
    /\ "/index.html?v=1" \in caches[CACHE_NAME].urls

\* C25: a handled navigation request that found no cache entry and whose
\* network fetch failed is answered with the cached root document.
C25_NavigationFallsBackToRoot ==
    (/\ fetchEvent.pc \in {"responded", "failed"}
     /\ fetchEvent.request.mode = "navigate"
     /\ fetchEvent.answer = NetFail
     /\ ~RequestMatches(caches, fetchEvent.request)) =>
        fetchEvent.response = [source |-> "cache", url |-> "/"]

\* C26: for a non-GET or cross-origin request the listener does not respond,
\* looks nothing up, fetches nothing and writes nothing.
C26_PassThroughUntouched ==
    (fetchEvent.pc # "idle"
        /\ (fetchEvent.request.method # "GET" \/ fetchEvent.request.origin # SelfOrigin)) =>
        /\ fetchEvent.pc = "passed"
        /\ fetchEvent.lookups = 0
        /\ fetchEvent.fetches = 0
        /\ ~fetchEvent.wrote
        /\ fetchEvent.response = NoResponse

\* C27: no client is claimed by the worker while a cache generation other
\* than the current one still exists.
C27_ClaimAfterCleanup ==
    worker.claimed => \A name \in OldCacheNames : ~caches[name].exists

\* C28: a worker that is installed, activating or activated has every URL
\* of the static manifest in the current cache; a worker whose pre-caching
\* failed for some URL is redundant, with nothing pre-cached.
C28_ActiveOnlyAfterPrecache ==
    /\ worker.state \in {"installed", "activating", "activated"} =>
          /\ worker.failed = {}
          /\ caches[CACHE_NAME].exists
          /\ STATIC_CACHE_URLS \subseteq caches[CACHE_NAME].urls
    /\ worker.failed # {} =>
          /\ worker.state = "redundant"
          /\ caches[CACHE_NAME].urls = {}

\* Pre-caching failed for one manifest URL and the worker was discarded.
C28_Witness ==
    /\ worker.state = "redundant"
    /\ worker.failed = {"/female-greeting.mp3"}
    /\ caches[CACHE_NAME].urls = {}

\* C29: an installed worker goes on to activation, whatever application
\* instances are open and without any SKIP_WAITING message.
C29_NeverWaits ==
    (worker.state = "installed") ~> (worker.state \in {"activating", "activated"})

\* A worker activates with application instances open and no message received.
C29_Witness ==
    /\ worker.state = "activating"
    /\ worker.clients = Clients
    /\ worker.received = {}

\* C30: after a SKIP_WAITING message every open client eventually gets
\* SW_UPDATED; SW_UPDATED is sent only by a worker that is active and has
\* claimed the clients; without a SKIP_WAITING message nothing is sent.
C30_SkipWaitingNotifiesClients ==
    /\ (worker.message = "skipping") ~>
          (worker.message = "done" /\ worker.notified = worker.clients)
    /\ [](worker.message = "done" =>
            worker.claimed /\ worker.state \in {"activating", "activated"})
    /\ []("SKIP_WAITING" \notin worker.received =>
            worker.message = "none" /\ worker.notified = {})

\* The record the capture built is in the store.
CaptureStored ==
    /\ flow.inspection \in OfflineInspection
    /\ store[Key(flow.inspection.id)] = flow.inspection

\* C31: a capture whose connectivity check said offline sends no POST to the
\* webhook, asks for the background sync registration only with its record
\* saved, and (unless the save itself failed) ends with its record in the
\* store.
C31_OfflineCaptureSaved ==
    flow.online = "offline" =>
        /\ flow.post = "none"
        /\ (flow.pc \in {"registering", "speaking"} \/ flow.sync # "none") =>
              CaptureStored
        /\ (flow.pc = "finished" /\ flow.saved # "failed") => CaptureStored

\* C32: when the save of the offline path fails, the capture ends in 'error',
\* no background sync is registered and the store has no record for it.
C32_FailedSaveEndsInError ==
    flow.saved = "failed" =>
        /\ flow.pc = "finished"
        /\ flow.state = "error"
        /\ flow.sync = "none"
        /\ flow.inspection \in OfflineInspection
        /\ store[Key(flow.inspection.id)] = Undefined

\* An offline capture whose save was rejected.
C32_Witness ==
    /\ flow.online = "offline"
    /\ flow.saved = "failed"
    /\ flow.pc = "finished"

\* C33: a capture whose webhook POST failed with a network error ends with a
\* record for the photo in the store.
C33_NetworkErrorKeepsPhoto ==
    (flow.pc = "finished" /\ flow.post = "neterr") => CaptureStored

C37_SaveDuringCycleKept ==
    [][/\ \A inspection \in OfflineInspection :
            (~FgQuiet /\ saveInspection(inspection)) =>
                fg' = fg /\ store'[Key(inspection.id)] = inspection
       /\ \A id \in Ids :
            (fg' # fg /\ store'[Key(id)] # store[Key(id)]) =>
                /\ fg.pc = "removing"
                /\ store[Key(id)] = fg.inspections[fg.i]
                /\ store[Key(id)] = fg.posted[Len(fg.posted)]]_vars

\* C35: whenever a background cycle has ended with records left in the
\* store, another sync cycle eventually starts.
C35_LeftoversRetried ==
    (/\ syncEvent.tag = SYNC_TAG
     /\ ~syncEvent.alive
     /\ bg.pc = "done"
     /\ Pending(store) # {}) ~> syncEvent.alive

\* C36: a foreground cycle that removed nothing left the store as it found
\* it; a background cycle run on that store with the same sequence of server
\* responses considers the same records, leaves the same records and ends
\* with the same synced and failed counts.
C36_CyclesEquivalent ==
    (/\ fg.pc = "done"
     /\ bg.pc = "done"
     /\ fg.synced = 0
     /\ bg.responses = fg.responses) =>
        /\ {bg.posted[n] : n \in 1..Len(bg.posted)} =
               {fg.posted[n] : n \in 1..Len(fg.posted)}
        /\ Pending(store) = {fg.inspections[n].id : n \in 1..Len(fg.inspections)}
        /\ bg.synced = fg.synced
        /\ bg.failed = fg.failed

\* C38: a cache-first request answered from the cache is answered with an
\* entry of the serving worker's own generation, also while another
\* generation exists.
C38_ServedFromOwnGeneration ==
    (/\ CacheFirstRequest
     /\ fetchEvent.pc = "responded"
     /\ fetchEvent.response.source = "cache") =>
        fetchEvent.response.url \in caches[CACHE_NAME].urls

====
